---- MODULE Spec2Model ----
(***************************************************************************)
(* HR administration system: the employee and department tRPC routers      *)
(* (src/src/server/api/routers/employee.ts, department.ts) over the Prisma *)
(* store (schema in src/README.md), with the JWT sessions of               *)
(* src/src/server/auth/config.ts.                                          *)
(*                                                                         *)
(* Strings are modelled by small integers: an employee id is its creation  *)
(* rank (cuid() gives fresh ids), e-mail 0 is "hradmin@test.com".          *)
(***************************************************************************)
EXTENDS Integers, FiniteSets, Sequences, TLC

\* ---- bounds of the model ------------------------------------------------
MaxEmp == 2
MaxDept == 2
MaxName == 2

\* ---- values -------------------------------------------------------------
\* null / "" (a falsy id): no manager, no linked employee
NoId == 0
\* an optional managerId that was not supplied (undefined)
Undefined == -1
\* an optional status that was not supplied (undefined)
NoStatus == "undefined"
\* the seeded administrator: user id and e-mail
AdminUserId == 0
AdminEmail == 0

Roles == {"ADMIN", "MANAGER", "EMPLOYEE"}
Statuses == {"ACTIVE", "INACTIVE"}
Outcomes == {"OK", "FORBIDDEN", "NOT_FOUND", "CONFLICT", "ERROR"}

EmpIds == 1..MaxEmp
DeptIds == 1..MaxDept
\* the administrator's address and one per employee
Emails == 0..MaxEmp
Names == 1..MaxName
\* as many department names as departments
DeptNames == 1..MaxDept
\* the two connections on which transactions race
TxIds == {1, 2}

VARIABLES
    employees,    \* table Employee: id -> row
    users,        \* table User: id -> row
    departments,  \* table Department: id -> row
    memberships,  \* table EmployeeDepartment: <<employeeId, departmentId>>
    sessions,     \* JWTs that have been issued and are still valid
    ctx,          \* ctx.session.user of the request being served
    input,        \* the submitted employee form of that request, or NoInput
    response,     \* what the request returned, or Pending
    txs           \* the interactive transactions ($transaction) under way

vars == <<employees, users, departments, memberships, sessions, ctx, input, response, txs>>

\* ---- store helpers ------------------------------------------------------
\* f with key k bound to v (insert or replace a row)
Put(f, k, v) == [x \in DOMAIN f \cup {k} |-> IF x = k THEN v ELSE f[x]]

\* tx.user.findFirst({ where: { employeeId } }): the matching user ids
UsersOfEmployee(us, e) == {u \in DOMAIN us : us[u].employeeId = e}

\* `${firstName} ${lastName}`
FullName(firstName, lastName) == <<firstName, lastName>>

\* the token the jwt callback builds at sign-in from the stored user
JwtOf(us, u) == [id |-> u, role |-> us[u].role, employeeId |-> us[u].employeeId]

\* A user may sign in at any moment and the token lives 30 days without
\* being refreshed: every (user, role) pair that has existed can be presented.
SignIns(us) == {JwtOf(us, u) : u \in DOMAIN us}

\* the outcome of a request: the procedure and the result or TRPCError code
\* ("ERROR": a Prisma error rethrown as it is)
Respond(op, outcome, id) == [op |-> op, outcome |-> outcome, id |-> id]

\* a request that passed the session check and was not answered yet
Pending == Respond("pending", "PENDING", NoId)

\* no session: no request is being served
NoSession == [id |-> Undefined, role |-> "NONE", employeeId |-> NoId]

\* the request carries no recorded form: the procedure's input is chosen
\* when it runs
NoInput == [id |-> NoId]

\* an employee.update form as parsed by the zod schema
UpdateInput(id, firstName, lastName, telephoneNumber, emailAddress, managerId, status) ==
    [id |-> id, firstName |-> firstName, lastName |-> lastName,
     telephoneNumber |-> telephoneNumber, emailAddress |-> emailAddress,
     managerId |-> managerId, status |-> status]

\* no request is being served
Idle == Respond("none", "OK", NoId)

\* createTRPCContext / protectedProcedure: a request arrives with one of the
\* issued tokens; the procedure then runs with ctx.session.user = that token
Authenticate(token, form) ==
    /\ response = Idle
    /\ token \in sessions
    /\ ctx' = token
    /\ input' = form
    /\ response' = Pending
    /\ UNCHANGED <<employees, users, departments, memberships, sessions, txs>>

\* the answer is returned to the client and the request's context is dropped
Reply ==
    /\ response \notin {Idle, Pending}
    /\ ctx' = NoSession
    /\ input' = NoInput
    /\ response' = Idle
    /\ UNCHANGED <<employees, users, departments, memberships, sessions, txs>>

\* ---- role transitions (department.ts) -----------------------------------
\* (variant: the role test written as "not yet a manager")
PromoteIfEmployee_UnlessManager(us, managerId) ==
    LET found == UsersOfEmployee(us, managerId) IN
    IF found = {} THEN us
    ELSE LET u == CHOOSE x \in found : TRUE IN
         IF us[u].role # "MANAGER" THEN [us EXCEPT ![u].role = "MANAGER"] ELSE us

\* (variant: the promotion left out)
PromoteIfEmployee_Skipped(us, managerId) == us

\* findFirst({ where: { employeeId: managerId } }), then
\* if (user && user.role === "EMPLOYEE") update role to "MANAGER"
PromoteIfEmployee(us, managerId) ==
    LET found == UsersOfEmployee(us, managerId) IN
    IF found = {} THEN us
    ELSE LET u == CHOOSE x \in found : TRUE IN
         IF us[u].role = "EMPLOYEE" THEN [us EXCEPT ![u].role = "MANAGER"] ELSE us

\* (variant: the other departments of the previous manager are not looked up)
StillManaging_Unchecked(deps, old, id) == FALSE

\* findFirst({ where: { managerId: old, NOT: { id } } })
StillManaging(deps, old, id) ==
    \E d \in DOMAIN deps : deps[d].managerId = old /\ d # id

\* (variant: the direct reports of the previous manager are not looked up)
HasSubordinates_Unchecked(emps, old) == FALSE

\* tx.employee.findFirst({ where: { managerId: old } })
HasSubordinates(emps, old) ==
    \E e \in DOMAIN emps : emps[e].managerId = old

\* (variant: the demotion left out)
DemoteIfManager_Skipped(us, old) == us

\* if (prevManagerUser && prevManagerUser.role === "MANAGER") role := "EMPLOYEE"
DemoteIfManager(us, old) ==
    LET found == UsersOfEmployee(us, old) IN
    IF found = {} THEN us
    ELSE LET u == CHOOSE x \in found : TRUE IN
         IF us[u].role = "MANAGER" THEN [us EXCEPT ![u].role = "EMPLOYEE"] ELSE us

\* the block run when currentDept.managerId !== managerId: promote the new
\* manager, then re-evaluate the previous one on the updated tables
ManagerChanged(us, deps, emps, id, old, managerId) ==
    LET promoted == PromoteIfEmployee(us, managerId) IN
    IF old # NoId /\ ~StillManaging(deps, old, id) /\ ~HasSubordinates(emps, old)
    THEN DemoteIfManager(promoted, old)
    ELSE promoted

\* ---- department router --------------------------------------------------
\* (variant: the name column carries no unique index)
DeptNameTaken_Never(deps, name, except) == FALSE

\* the name is @unique
DeptNameTaken(deps, name, except) ==
    \E d \in DOMAIN deps : d # except /\ deps[d].name = name

\* (variant: managerId is not a foreign key)
DeptWriteErrors_NoForeignKey(deps, emps, id, name, managerId) ==
    IF DeptNameTaken(deps, name, id) THEN {"CONFLICT"} ELSE {}

\* what the insert / update statement of a department row can throw: P2002 on
\* the unique name (mapped to CONFLICT), a foreign-key / connect failure on an
\* unknown managerId (rethrown as is); either one when both apply
DeptWriteErrors(deps, emps, id, name, managerId) ==
    (IF DeptNameTaken(deps, name, id) THEN {"CONFLICT"} ELSE {})
    \cup (IF managerId \notin DOMAIN emps THEN {"ERROR"} ELSE {})

\* department.create
DepartmentCreate(name, managerId, status) ==
    LET id == Cardinality(DOMAIN departments) + 1
        row == [name |-> name, status |-> status, managerId |-> managerId]
        us == PromoteIfEmployee(users, managerId)
    IN
    /\ response = Pending
    /\ UNCHANGED <<ctx, input, txs, memberships>>
    /\ IF ctx.role # "ADMIN"
       THEN /\ response' = Respond("department.create", "FORBIDDEN", NoId)
            /\ UNCHANGED <<employees, users, departments, sessions>>
       ELSE IF DeptWriteErrors(departments, employees, NoId, name, managerId) # {}
       THEN /\ \E e \in DeptWriteErrors(departments, employees, NoId, name, managerId) :
                  response' = Respond("department.create", e, NoId)
            /\ UNCHANGED <<employees, users, departments, sessions>>
       ELSE /\ id <= MaxDept
            /\ departments' = Put(departments, id, row)
            /\ users' = us
            /\ sessions' = sessions \cup SignIns(us)
            /\ response' = Respond("department.create", "OK", id)
            /\ UNCHANGED employees

\* department.update; status = NoStatus leaves the status column alone
DepartmentUpdate(id, name, managerId, status) ==
    /\ response = Pending
    /\ UNCHANGED <<ctx, input, txs, memberships>>
    /\ IF ctx.role # "ADMIN"
       THEN /\ response' = Respond("department.update", "FORBIDDEN", id)
            /\ UNCHANGED <<employees, users, departments, sessions>>
       ELSE IF id \notin DOMAIN departments
       THEN /\ response' = Respond("department.update", "NOT_FOUND", id)
            /\ UNCHANGED <<employees, users, departments, sessions>>
       ELSE IF DeptWriteErrors(departments, employees, id, name, managerId) # {}
       THEN /\ \E e \in DeptWriteErrors(departments, employees, id, name, managerId) :
                  response' = Respond("department.update", e, id)
            /\ UNCHANGED <<employees, users, departments, sessions>>
       ELSE LET currentDept == departments[id]
                row == [name |-> name,
                        status |-> IF status = NoStatus THEN currentDept.status ELSE status,
                        managerId |-> managerId]
                deps == Put(departments, id, row)
                us == IF currentDept.managerId # managerId
                      THEN ManagerChanged(users, deps, employees, id,
                                          currentDept.managerId, managerId)
                      ELSE users
            IN /\ departments' = deps
               /\ users' = us
               /\ sessions' = sessions \cup SignIns(us)
               /\ response' = Respond("department.update", "OK", id)
               /\ UNCHANGED employees

\* update({ where: { id }, data: { status } }): the status column takes the
\* value of the input, whatever it was (both toggleStatus procedures)
Toggled(row, status) == [row EXCEPT !.status = status]

\* (variant: the role of the caller is not looked at)
DepartmentToggleStatus_AnyCaller(id, status) ==
    /\ response = Pending
    /\ UNCHANGED <<ctx, input, txs, memberships>>
    /\ IF id \notin DOMAIN departments
       THEN /\ response' = Respond("department.toggleStatus", "ERROR", id)
            /\ UNCHANGED <<employees, users, departments, sessions>>
       ELSE /\ departments' = [departments EXCEPT ![id] = Toggled(@, status)]
            /\ response' = Respond("department.toggleStatus", "OK", id)
            /\ UNCHANGED <<employees, users, sessions>>

\* department.toggleStatus: prisma update of a missing row throws (P2025)
DepartmentToggleStatus(id, status) ==
    /\ response = Pending
    /\ UNCHANGED <<ctx, input, txs, memberships>>
    /\ IF ctx.role # "ADMIN"
       THEN /\ response' = Respond("department.toggleStatus", "FORBIDDEN", id)
            /\ UNCHANGED <<employees, users, departments, sessions>>
       ELSE IF id \notin DOMAIN departments
       THEN /\ response' = Respond("department.toggleStatus", "ERROR", id)
            /\ UNCHANGED <<employees, users, departments, sessions>>
       ELSE /\ departments' = [departments EXCEPT ![id] = Toggled(@, status)]
            /\ response' = Respond("department.toggleStatus", "OK", id)
            /\ UNCHANGED <<employees, users, sessions>>

\* ---- employee router ----------------------------------------------------
\* emailAddress is @unique on Employee
EmployeeEmailTaken(emps, emailAddress, except) ==
    \E e \in DOMAIN emps : e # except /\ emps[e].emailAddress = emailAddress

\* email is @unique on User
UserEmailTaken(us, email, except) ==
    \E u \in DOMAIN us : u # except /\ us[u].email = email

\* (variant: the user of the new employee is not created)
CreateUser_Skipped(us, id, user) == us

\* tx.user.create({ data: { email, password, name, role, employeeId } })
CreateUser(us, id, user) == Put(us, id, user)

\* employee.create: any signed-in caller; Employee and User in one transaction
EmployeeCreate(firstName, lastName, telephoneNumber, emailAddress, managerId, status) ==
    LET id == Cardinality(DOMAIN employees) + 1
        hasManager == managerId # Undefined /\ managerId # NoId
        row == [firstName |-> firstName, lastName |-> lastName,
                telephoneNumber |-> telephoneNumber, emailAddress |-> emailAddress,
                status |-> status,
                managerId |-> IF hasManager THEN managerId ELSE NoId]
        user == [email |-> emailAddress, name |-> FullName(firstName, lastName),
                 role |-> "EMPLOYEE", employeeId |-> id]
        employeeErrors ==
            (IF EmployeeEmailTaken(employees, emailAddress, NoId) THEN {"CONFLICT"} ELSE {})
            \cup (IF hasManager /\ managerId \notin DOMAIN employees THEN {"ERROR"} ELSE {})
        us == CreateUser(users, id, user)
    IN
    /\ response = Pending
    /\ UNCHANGED <<ctx, input, txs, memberships>>
    /\ IF employeeErrors # {}
       THEN /\ \E e \in employeeErrors : response' = Respond("employee.create", e, NoId)
            /\ UNCHANGED <<employees, users, departments, sessions>>
       ELSE IF UserEmailTaken(users, emailAddress, id)
       THEN \* tx.user.create throws P2002: the transaction rolls the employee back
            /\ response' = Respond("employee.create", "CONFLICT", NoId)
            /\ UNCHANGED <<employees, users, departments, sessions>>
       ELSE /\ id <= MaxEmp
            /\ employees' = Put(employees, id, row)
            /\ users' = us
            /\ sessions' = sessions \cup SignIns(us)
            /\ response' = Respond("employee.create", "OK", id)
            /\ UNCHANGED departments

\* (variant: a MANAGER may edit any employee)
isAuthorized_AnyManager(session, id, employee) ==
    \/ session.role = "ADMIN"
    \/ (session.employeeId # NoId /\ session.employeeId = id)
    \/ session.role = "MANAGER"

\* undefined === null is false: a caller without employee never matches a
\* null managerId
isAuthorized(session, id, employee) ==
    \/ session.role = "ADMIN"
    \/ (session.employeeId # NoId /\ session.employeeId = id)
    \/ (session.role = "MANAGER" /\ session.employeeId # NoId
            /\ session.employeeId = employee.managerId)

\* (variant: manager and status taken from every caller)
UpdateData_ForAnyCaller(session, employee, firstName, lastName, telephoneNumber, emailAddress, managerId, status) ==
    [firstName |-> firstName, lastName |-> lastName,
     telephoneNumber |-> telephoneNumber, emailAddress |-> emailAddress,
     status |-> IF status # NoStatus THEN status ELSE employee.status,
     managerId |-> IF managerId # Undefined THEN managerId ELSE employee.managerId]

\* updateData: the basic fields, plus manager and status for an ADMIN
UpdateData(session, employee, firstName, lastName, telephoneNumber, emailAddress, managerId, status) ==
    [firstName |-> firstName, lastName |-> lastName,
     telephoneNumber |-> telephoneNumber, emailAddress |-> emailAddress,
     status |-> IF session.role = "ADMIN" /\ status # NoStatus
                THEN status ELSE employee.status,
     managerId |-> IF session.role = "ADMIN" /\ managerId # Undefined
                   THEN managerId ELSE employee.managerId]

\* (variant: the user is written back as a plain EMPLOYEE)
UserUpdate_RoleReset(user, emailAddress, firstName, lastName) ==
    [user EXCEPT !.email = emailAddress, !.name = FullName(firstName, lastName),
                 !.role = "EMPLOYEE"]

\* ctx.db.user.update({ data: { email, name } }): the role is not written
UserUpdate(user, emailAddress, firstName, lastName) ==
    [user EXCEPT !.email = emailAddress, !.name = FullName(firstName, lastName)]

\* employee.update: two separate statements, no transaction
EmployeeUpdate(id, firstName, lastName, telephoneNumber, emailAddress, managerId, status) ==
    /\ response = Pending
    /\ UNCHANGED <<ctx, input, txs, memberships>>
    /\ IF id \notin DOMAIN employees
       THEN /\ response' = Respond("employee.update", "NOT_FOUND", id)
            /\ UNCHANGED <<employees, users, departments, sessions>>
       ELSE LET employee == employees[id]
                row == UpdateData(ctx, employee, firstName, lastName,
                                  telephoneNumber, emailAddress, managerId, status)
                employeeErrors ==
                    (IF EmployeeEmailTaken(employees, emailAddress, id)
                     THEN {"CONFLICT"} ELSE {})
                    \cup (IF row.managerId # NoId /\ row.managerId \notin DOMAIN employees
                          THEN {"ERROR"} ELSE {})
                found == UsersOfEmployee(users, id)
            IN
            IF ~isAuthorized(ctx, id, employee)
            THEN /\ response' = Respond("employee.update", "FORBIDDEN", id)
                 /\ UNCHANGED <<employees, users, departments, sessions>>
            ELSE IF employeeErrors # {}
            THEN /\ \E e \in employeeErrors : response' = Respond("employee.update", e, id)
                 /\ UNCHANGED <<employees, users, departments, sessions>>
            ELSE /\ employees' = [employees EXCEPT ![id] = row]
                 /\ UNCHANGED departments
                 /\ IF found = {}
                    THEN /\ response' = Respond("employee.update", "OK", id)
                         /\ UNCHANGED <<users, sessions>>
                    ELSE LET u == CHOOSE x \in found : TRUE IN
                         IF UserEmailTaken(users, emailAddress, u)
                         THEN \* user.update throws P2002 after the employee row was written
                              /\ response' = Respond("employee.update", "CONFLICT", id)
                              /\ UNCHANGED <<users, sessions>>
                         ELSE /\ users' = [users EXCEPT ![u] =
                                            UserUpdate(users[u], emailAddress,
                                                       firstName, lastName)]
                              /\ response' = Respond("employee.update", "OK", id)
                              /\ UNCHANGED sessions

\* employee.toggleStatus: prisma update of a missing row throws (P2025)
EmployeeToggleStatus(id, status) ==
    /\ response = Pending
    /\ UNCHANGED <<ctx, input, txs, memberships>>
    /\ IF ctx.role # "ADMIN"
       THEN /\ response' = Respond("employee.toggleStatus", "FORBIDDEN", id)
            /\ UNCHANGED <<employees, users, departments, sessions>>
       ELSE IF id \notin DOMAIN employees
       THEN /\ response' = Respond("employee.toggleStatus", "ERROR", id)
            /\ UNCHANGED <<employees, users, departments, sessions>>
       ELSE /\ employees' = [employees EXCEPT ![id] = Toggled(@, status)]
            /\ response' = Respond("employee.toggleStatus", "OK", id)
            /\ UNCHANGED <<users, departments, sessions>>

\* ---- queries (employee.ts, department.ts) -------------------------------
\* a string that is neither undefined nor ""
Truthy(id) == id # Undefined /\ id # NoId

\* session.user.employeeId === x (an absent employeeId equals no column value)
SameId(employeeId, x) == employeeId # NoId /\ employeeId = x

\* a Prisma filter { column: employeeId }: an undefined value is no filter
FilterId(employeeId, x) == employeeId = NoId \/ employeeId = x

\* the answer of a query: the ids of the records returned and the employees
\* whose columns the answer carries (returned rows and included relations)
Answer(op, outcome, id, rows, shown) ==
    [op |-> op, outcome |-> outcome, id |-> id, rows |-> rows, shown |-> shown]

QueryFrame ==
    UNCHANGED <<employees, users, departments, memberships, sessions, ctx, input, txs>>

\* (variant: an EMPLOYEE is not restricted to the own record)
WhereConditions_Unrestricted(session, status, managerId) ==
    [status |-> IF status # "ALL" THEN status ELSE NoStatus,
     id |-> Undefined,
     managerId |-> IF session.role # "EMPLOYEE" /\ Truthy(managerId)
                   THEN managerId ELSE Undefined,
     OR |-> IF session.role = "MANAGER" /\ ~Truthy(managerId) THEN "team" ELSE "none"]

\* employee.getAll: whereConditions after the role-based block; an absent key
\* is NoStatus / Undefined / "none"
WhereConditions(session, status, managerId) ==
    [status |-> IF status # "ALL" THEN status ELSE NoStatus,
     id |-> IF session.role = "EMPLOYEE" /\ session.employeeId # NoId
            THEN session.employeeId ELSE Undefined,
     managerId |-> IF session.role # "EMPLOYEE" /\ Truthy(managerId)
                   THEN managerId ELSE Undefined,
     OR |-> IF session.role = "MANAGER" /\ ~Truthy(managerId) THEN "team" ELSE "none"]

\* the OR key of the where object: none, the manager's team, or the members
\* and the manager of the department
OrMatches(or, session, departmentId, e) ==
    CASE or = "team" ->
            \/ FilterId(session.employeeId, e)
            \/ FilterId(session.employeeId, employees[e].managerId)
      [] or = "department" ->
            \/ <<e, departmentId>> \in memberships
            \/ /\ departmentId \in DOMAIN departments
               /\ departments[departmentId].managerId = e
      [] OTHER -> TRUE

\* employee e satisfies the where object
WhereMatches(where, session, departmentId, e) ==
    /\ where.status = NoStatus \/ employees[e].status = where.status
    /\ where.id = Undefined \/ e = where.id
    /\ where.managerId = Undefined \/ employees[e].managerId = where.managerId
    /\ OrMatches(where.OR, session, departmentId, e)

\* the rows of employee.getAll; with a departmentId the object
\* { ...whereConditions, OR: [...] } replaces the OR key
EmployeeGetAllRows(session, status, managerId, departmentId) ==
    LET base == WhereConditions(session, status, managerId)
        where == IF Truthy(departmentId) THEN [base EXCEPT !.OR = "department"]
                 ELSE base
    IN {e \in DOMAIN employees : WhereMatches(where, session, departmentId, e)}

\* include: { manager: true } on employee rows
ManagersOf(rows) == {employees[e].managerId : e \in rows} \ {NoId}

\* employee.getAll
EmployeeGetAll(status, managerId, departmentId) ==
    /\ response = Pending
    /\ LET rows == EmployeeGetAllRows(ctx, status, managerId, departmentId) IN
       response' = Answer("employee.getAll", "OK", NoId, rows, rows \cup ManagersOf(rows))
    /\ QueryFrame

\* (variant: the EMPLOYEE test left out)
CanReadEmployee_EmployeeUnchecked(session, id, employee) ==
    ~(/\ session.role = "MANAGER"
      /\ ~SameId(session.employeeId, id)
      /\ ~SameId(session.employeeId, employee.managerId))

\* employee.getById: neither of the two FORBIDDEN tests applies
CanReadEmployee(session, id, employee) ==
    /\ ~(session.role = "EMPLOYEE" /\ ~SameId(session.employeeId, id))
    /\ ~(/\ session.role = "MANAGER"
         /\ ~SameId(session.employeeId, id)
         /\ ~SameId(session.employeeId, employee.managerId))

\* employee.getById
EmployeeGetById(id) ==
    /\ response = Pending
    /\ IF id \notin DOMAIN employees
       THEN response' = Answer("employee.getById", "NOT_FOUND", id, {}, {})
       ELSE IF ~CanReadEmployee(ctx, id, employees[id])
       THEN response' = Answer("employee.getById", "FORBIDDEN", id, {}, {})
       ELSE response' = Answer("employee.getById", "OK", id, {id},
                               {id} \cup ManagersOf({id}))
    /\ QueryFrame

\* employee.getManagers: id, firstName, lastName of the employees who have a
\* subordinate, a MANAGER or ADMIN user, or a department
EmployeeGetManagers ==
    /\ response = Pending
    /\ LET rows == {e \in DOMAIN employees :
                      \/ \E x \in DOMAIN employees : employees[x].managerId = e
                      \/ \E u \in UsersOfEmployee(users, e) :
                            users[u].role \in {"MANAGER", "ADMIN"}
                      \/ \E d \in DOMAIN departments : departments[d].managerId = e}
       IN response' = Answer("employee.getManagers", "OK", NoId, rows, rows)
    /\ QueryFrame

\* employee.getAllForDepartmentManager: id, firstName, lastName of the ACTIVE
\* employees
EmployeeGetAllForDepartmentManager ==
    /\ response = Pending
    /\ LET rows == {e \in DOMAIN employees : employees[e].status = "ACTIVE"} IN
       response' = Answer("employee.getAllForDepartmentManager", "OK", NoId, rows, rows)
    /\ QueryFrame

\* employees: { some: { employeeId } } on department d
HasMember(d, employeeId) ==
    \E r \in memberships : r[2] = d /\ FilterId(employeeId, r[1])

\* (variant: a MANAGER is given every department)
DepartmentScope_ManagerAll(session, d) ==
    CASE session.role = "EMPLOYEE" -> HasMember(d, session.employeeId)
      [] OTHER -> TRUE

\* department.getAll: the role-based part of whereConditions
DepartmentScope(session, d) ==
    CASE session.role = "EMPLOYEE" -> HasMember(d, session.employeeId)
      [] session.role = "MANAGER" ->
            \/ FilterId(session.employeeId, departments[d].managerId)
            \/ HasMember(d, session.employeeId)
      [] OTHER -> TRUE

DepartmentGetAllRows(session, status) ==
    {d \in DOMAIN departments :
        /\ status = "ALL" \/ departments[d].status = status
        /\ DepartmentScope(session, d)}

\* department.getAll (include: { manager: true })
DepartmentGetAll(status) ==
    /\ response = Pending
    /\ LET rows == DepartmentGetAllRows(ctx, status) IN
       response' = Answer("department.getAll", "OK", NoId, rows,
                          {departments[d].managerId : d \in rows})
    /\ QueryFrame

\* department.getById (include: manager and employees.employee); the caller
\* is not looked at
DepartmentGetById(id) ==
    /\ response = Pending
    /\ IF id \notin DOMAIN departments
       THEN response' = Answer("department.getById", "NOT_FOUND", id, {}, {})
       ELSE response' = Answer("department.getById", "OK", id, {id},
                               {departments[id].managerId}
                                  \cup {r[1] : r \in {x \in memberships : x[2] = id}})
    /\ QueryFrame

\* ---- initial state ------------------------------------------------------
EmptyTable == [x \in {} |-> NoId]

\* a connection whose last transaction, if any, left no trace
NoTx == [op |-> "none", pc |-> "idle", id |-> NoId, managerId |-> NoId,
         old |-> NoId, still |-> FALSE, subs |-> FALSE,
         deps |-> EmptyTable, roles |-> EmptyTable, peers |-> {}]

\* prisma/seed: the administrator, without an employee record
SeedAdmin == [email |-> AdminEmail, name |-> FullName(0, 0), role |-> "ADMIN",
              employeeId |-> NoId]

\* The schema lets a User of any role carry an employeeId and getManagers
\* looks for employees whose user is ADMIN: an administrator who was given an
\* employee record out of band (ADMIN is only ever set that way).
AdminEmployee == [firstName |-> 0, lastName |-> 0, telephoneNumber |-> 0,
                  emailAddress |-> AdminEmail, status |-> "ACTIVE",
                  managerId |-> NoId]

Init ==
    /\ departments = EmptyTable
    /\ memberships = {}
    /\ \/ /\ employees = EmptyTable
          /\ users = Put(EmptyTable, AdminUserId, SeedAdmin)
       \/ /\ employees = Put(EmptyTable, 1, AdminEmployee)
          /\ users = Put(EmptyTable, AdminUserId, [SeedAdmin EXCEPT !.employeeId = 1])
    /\ sessions = SignIns(users)
    /\ ctx = NoSession
    /\ input = NoInput
    /\ response = Idle
    /\ txs = [t \in TxIds |-> NoTx]

\* ---- requests -----------------------------------------------------------
OptionalEmpIds == EmpIds \cup {NoId, Undefined}
OptionalStatuses == Statuses \cup {NoStatus}

\* the p-th person's last name and telephone number (kept apart from the
\* first names so that the three columns are distinguishable)
LastNameOf(p) == MaxName + p
PhoneOf(p) == 2 * MaxName + p

\* an e-mail address nobody uses yet
FreshEmail == Cardinality(DOMAIN employees) + 1

\* a department name nobody uses yet
FreshDeptName == Cardinality(DOMAIN departments) + 1

\* Management-graph requests: departments are created and re-assigned,
\* employees are created under a manager and re-assigned; the edit form is
\* submitted with the stored values of the other fields.
Next ==
    \/ \E token \in sessions : Authenticate(token, NoInput)
    \/ Reply
    \/ \E m \in EmpIds :
          DepartmentCreate(FreshDeptName, m, "ACTIVE")
    \/ \E d \in DOMAIN departments, m \in EmpIds :
          DepartmentUpdate(d, departments[d].name, m, NoStatus)
    \/ \E m \in OptionalEmpIds :
          EmployeeCreate(1, LastNameOf(1), PhoneOf(1), FreshEmail, m, "ACTIVE")
    \/ \E e \in DOMAIN employees, m \in OptionalEmpIds :
          EmployeeUpdate(e, employees[e].firstName, employees[e].lastName,
                         employees[e].telephoneNumber, employees[e].emailAddress,
                         m, NoStatus)

Spec == Init /\ [][Next]_vars

\* Profile requests: the record of the first employee is edited by every kind
\* of caller with every combination of fields, the form being recorded with
\* the request; colleagues are created with an unused address and one
\* department (one name) makes a colleague MANAGER.
NextProfile ==
    \/ \E token \in sessions : Authenticate(token, NoInput)
    \/ Reply
    \/ /\ response = Idle
       /\ \E token \in sessions, p \in Names, em \in Emails, m \in OptionalEmpIds,
             s \in OptionalStatuses :
             Authenticate(token, UpdateInput(1, p, LastNameOf(p), PhoneOf(p), em, m, s))
    \/ /\ input = NoInput
       /\ EmployeeCreate(1, LastNameOf(1), PhoneOf(1), FreshEmail, Undefined, "ACTIVE")
    \/ /\ input = NoInput
       /\ \E m \in EmpIds : DepartmentCreate(1, m, "ACTIVE")
    \/ /\ input # NoInput
       /\ EmployeeUpdate(input.id, input.firstName, input.lastName,
                         input.telephoneNumber, input.emailAddress,
                         input.managerId, input.status)

SpecProfile == Init /\ [][NextProfile]_vars

\* Administration requests: every caller tries the procedures reserved to
\* the administrator, on existing and on unknown ids; employees are created
\* without manager.
NextAdminOnly ==
    \/ /\ response = Idle
       /\ \E token \in sessions : Authenticate(token, NoInput)
    \/ Reply
    \/ EmployeeCreate(1, LastNameOf(1), PhoneOf(1), FreshEmail, Undefined, "ACTIVE")
    \/ \E m \in EmpIds :
          DepartmentCreate(FreshDeptName, m, "ACTIVE")
    \/ \E d \in DeptIds, m \in EmpIds :
          DepartmentUpdate(d, IF d \in DOMAIN departments THEN departments[d].name ELSE d,
                           m, NoStatus)
    \/ \E d \in DeptIds, s \in Statuses : DepartmentToggleStatus(d, s)
    \/ \E e \in EmpIds, s \in Statuses : EmployeeToggleStatus(e, s)

SpecAdminOnly == Init /\ [][NextAdminOnly]_vars

\* ---- department requests ------------------------------------------------
\* the input of a department mutation, recorded with the request
DepartmentInput(op, id, name, managerId, status) ==
    [op |-> op, id |-> id, name |-> name, managerId |-> managerId,
     status |-> status]

\* departments are created and renamed under any name of a small list (taken
\* or not) with any manager id (known or not), on existing and unknown ids
DepartmentInputs ==
    {DepartmentInput("department.create", NoId, n, m, "ACTIVE") :
        n \in DeptNames, m \in EmpIds}
    \cup {DepartmentInput("department.update", d, n, m, NoStatus) :
            d \in DeptIds, n \in DeptNames, m \in EmpIds}

\* Department requests by every kind of caller; employees are created
\* without manager.
NextDepartments ==
    \/ /\ response = Idle
       /\ \E token \in sessions : Authenticate(token, NoInput)
    \/ /\ response = Idle
       /\ \E token \in sessions, form \in DepartmentInputs : Authenticate(token, form)
    \/ Reply
    \/ /\ input = NoInput
       /\ EmployeeCreate(1, LastNameOf(1), PhoneOf(1), FreshEmail, Undefined, "ACTIVE")
    \/ /\ input # NoInput /\ input.op = "department.create"
       /\ DepartmentCreate(input.name, input.managerId, input.status)
    \/ /\ input # NoInput /\ input.op = "department.update"
       /\ DepartmentUpdate(input.id, input.name, input.managerId, input.status)

SpecDepartments == Init /\ [][NextDepartments]_vars

\* ---- all mutations ------------------------------------------------------
\* Every mutation of the two routers by every kind of caller: colleagues are
\* created without manager or under the first employee, the first employee is
\* re-assigned to any manager, departments are created and re-assigned, the
\* status of the first employee and of the first department is switched.
NextMutations ==
    \/ /\ response = Idle
       /\ \E token \in sessions : Authenticate(token, NoInput)
    \/ Reply
    \/ \E m \in {1, Undefined} :
          EmployeeCreate(1, LastNameOf(1), PhoneOf(1), FreshEmail, m, "ACTIVE")
    \/ /\ 1 \in DOMAIN employees
       /\ \E m \in OptionalEmpIds :
             EmployeeUpdate(1, employees[1].firstName, employees[1].lastName,
                            employees[1].telephoneNumber, employees[1].emailAddress,
                            m, NoStatus)
    \/ \E s \in Statuses : EmployeeToggleStatus(1, s)
    \/ \E m \in EmpIds :
          DepartmentCreate(FreshDeptName, m, "ACTIVE")
    \/ \E d \in DOMAIN departments, m \in EmpIds :
          DepartmentUpdate(d, departments[d].name, m, NoStatus)
    \/ \E s \in Statuses : DepartmentToggleStatus(1, s)

SpecMutations == Init /\ [][NextMutations]_vars

\* ---- query requests ------------------------------------------------------
StatusFilters == Statuses \cup {"ALL"}

\* the input of a query, recorded with the request (unused fields absent)
QueryInput(op, id, status, managerId, departmentId) ==
    [op |-> op, id |-> id, status |-> status, managerId |-> managerId,
     departmentId |-> departmentId]

\* every query with every input, unknown ids included
QueryInputs ==
    {QueryInput("employee.getAll", NoId, s, m, d) :
        s \in StatusFilters, m \in OptionalEmpIds, d \in DeptIds \cup {Undefined}}
    \cup {QueryInput("employee.getById", e, "ALL", Undefined, Undefined) :
            e \in 1..(MaxEmp + 1)}
    \cup {QueryInput(op, NoId, "ALL", Undefined, Undefined) :
            op \in {"employee.getManagers", "employee.getAllForDepartmentManager"}}
    \cup {QueryInput("department.getAll", NoId, s, Undefined, Undefined) :
            s \in StatusFilters}
    \cup {QueryInput("department.getById", d, "ALL", Undefined, Undefined) :
            d \in 1..(MaxDept + 1)}

\* every other record is INACTIVE
StatusOf(n) == IF n % 2 = 1 THEN "ACTIVE" ELSE "INACTIVE"

\* A populated store: every employee with its user, any management graph
\* (employee.update accepts any existing managerId), every department (the first one managed by any
\* employee, the others by the first employee), at most one EmployeeDepartment
\* row (the table is read by the queries and written by no procedure), the
\* managers of departments promoted.  Every employee can present a token
\* issued while EMPLOYEE and one issued while MANAGER.
InitQuery ==
    /\ \E g \in [EmpIds -> EmpIds \cup {NoId}] :
          employees = [e \in EmpIds |->
                         [firstName |-> 1, lastName |-> LastNameOf(1),
                          telephoneNumber |-> PhoneOf(1), emailAddress |-> e,
                          status |-> StatusOf(e), managerId |-> g[e]]]
    /\ \E m \in EmpIds :
          departments = [d \in DeptIds |->
                            [name |-> d, status |-> StatusOf(d),
                             managerId |-> IF d = 1 THEN m ELSE 1]]
    /\ memberships \in {{}} \cup {{<<e, d>>} : e \in EmpIds, d \in DeptIds}
    /\ users = [u \in {AdminUserId} \cup EmpIds |->
                  IF u = AdminUserId THEN SeedAdmin
                  ELSE [email |-> u, name |-> FullName(1, LastNameOf(1)),
                        role |-> IF \E d \in DeptIds : departments[d].managerId = u
                                 THEN "MANAGER" ELSE "EMPLOYEE",
                        employeeId |-> u]]
    /\ sessions = SignIns(users)
                    \cup {[id |-> e, role |-> r, employeeId |-> e] :
                            e \in EmpIds, r \in {"EMPLOYEE", "MANAGER"}}
    /\ ctx = NoSession
    /\ input = NoInput
    /\ response = Idle
    /\ txs = [t \in TxIds |-> NoTx]

NextQuery ==
    \/ /\ response = Idle
       /\ \E token \in sessions, form \in QueryInputs : Authenticate(token, form)
    \/ Reply
    \/ /\ response = Pending /\ input.op = "employee.getAll"
       /\ EmployeeGetAll(input.status, input.managerId, input.departmentId)
    \/ /\ response = Pending /\ input.op = "employee.getById"
       /\ EmployeeGetById(input.id)
    \/ /\ response = Pending /\ input.op = "employee.getManagers"
       /\ EmployeeGetManagers
    \/ /\ response = Pending /\ input.op = "employee.getAllForDepartmentManager"
       /\ EmployeeGetAllForDepartmentManager
    \/ /\ response = Pending /\ input.op = "department.getAll"
       /\ DepartmentGetAll(input.status)
    \/ /\ response = Pending /\ input.op = "department.getById"
       /\ DepartmentGetById(input.id)

SpecQuery == InitQuery /\ [][NextQuery]_vars

\* ---- concurrent department transactions ---------------------------------
\* department.create and department.update each run their statements in one
\* interactive transaction.  Under read committed every statement reads the
\* committed rows overlaid with the transaction's own writes; a written row
\* stays locked until the transaction ends, so a second writer of it waits.
Active(t) == txs[t].pc \notin {"idle", "committed"}

\* what a statement of transaction t reads from Department and User
DeptView(t) ==
    [d \in DOMAIN departments \cup DOMAIN txs[t].deps |->
        IF d \in DOMAIN txs[t].deps THEN txs[t].deps[d] ELSE departments[d]]

UserView(t) ==
    [u \in DOMAIN users |->
        IF u \in DOMAIN txs[t].roles
        THEN [users[u] EXCEPT !.role = txs[t].roles[u]] ELSE users[u]]

\* the role column of the rows t has written once its view became nv
RoleWrites(t, nv) ==
    [u \in {x \in DOMAIN users :
               x \in DOMAIN txs[t].roles \/ nv[x].role # UserView(t)[x].role} |->
        nv[u].role]

\* a row t wants to write is held by another transaction
DeptLocked(t, d) ==
    \E o \in TxIds \ {t} : Active(o) /\ d \in DOMAIN txs[o].deps

RoleLocked(t, w) ==
    \E o \in TxIds \ {t} : Active(o) /\ DOMAIN txs[o].roles \cap DOMAIN w # {}

\* an id no committed or pending row uses (cuid())
FreeDeptIds ==
    {d \in DeptIds : /\ d \notin DOMAIN departments
                     /\ \A o \in TxIds : d \notin DOMAIN txs[o].deps}

ConcFrame ==
    UNCHANGED <<employees, users, departments, memberships, sessions, ctx, input, response>>

\* an ADMIN request passes the role check and opens its transaction on a free
\* connection; the transactions under way become its peers, and what was kept
\* of transactions that are over is forgotten
Begin(t, op, id, managerId) ==
    /\ ~Active(t)
    /\ \A o \in TxIds : Active(o) => t \notin txs[o].peers
    /\ \E token \in sessions : token.role = "ADMIN"
    /\ txs' = [o \in TxIds |->
                 IF o = t
                 THEN [NoTx EXCEPT !.op = op,
                                   !.pc = IF op = "department.create"
                                          THEN "create" ELSE "findCurrent",
                                   !.id = id, !.managerId = managerId,
                                   !.peers = {x \in TxIds \ {t} : Active(x)}]
                 ELSE IF Active(o) THEN [txs[o] EXCEPT !.peers = @ \cup {t}]
                 ELSE NoTx]
    /\ ConcFrame

\* tx.department.create (the name is the one no other department has)
TxCreate(t) ==
    /\ txs[t].pc = "create"
    /\ FreeDeptIds # {}
    /\ LET id == CHOOSE d \in FreeDeptIds : \A x \in FreeDeptIds : d <= x
           row == [name |-> id, status |-> "ACTIVE", managerId |-> txs[t].managerId]
       IN txs' = [txs EXCEPT ![t].id = id,
                             ![t].deps = Put(@, id, row),
                             ![t].pc = "promote"]
    /\ ConcFrame

\* tx.department.findUnique({ where: { id } }); NOT_FOUND ends the transaction
TxFindCurrent(t) ==
    /\ txs[t].pc = "findCurrent"
    /\ IF txs[t].id \notin DOMAIN DeptView(t)
       THEN txs' = [txs EXCEPT ![t] = NoTx]
       ELSE txs' = [txs EXCEPT ![t].old = DeptView(t)[txs[t].id].managerId,
                               ![t].pc = "update"]
    /\ ConcFrame

\* tx.department.update({ where: { id }, data }) with the name unchanged
TxUpdate(t) ==
    /\ txs[t].pc = "update"
    /\ ~DeptLocked(t, txs[t].id)
    /\ LET row == [DeptView(t)[txs[t].id] EXCEPT !.managerId = txs[t].managerId] IN
       txs' = [txs EXCEPT ![t].deps = Put(@, txs[t].id, row),
                          ![t].pc = IF txs[t].old # txs[t].managerId
                                    THEN "promote" ELSE "commit"]
    /\ ConcFrame

\* the new manager's user is looked up and promoted
TxPromote(t) ==
    /\ txs[t].pc = "promote"
    /\ LET w == RoleWrites(t, PromoteIfEmployee(UserView(t), txs[t].managerId)) IN
       /\ ~RoleLocked(t, w)
       /\ txs' = [txs EXCEPT ![t].roles = w,
                             ![t].pc = IF txs[t].op = "department.update"
                                          /\ txs[t].old # NoId
                                       THEN "stillManaging" ELSE "commit"]
    /\ ConcFrame

\* const stillManaging = await tx.department.findFirst(...)
TxStillManaging(t) ==
    /\ txs[t].pc = "stillManaging"
    /\ txs' = [txs EXCEPT ![t].still = StillManaging(DeptView(t), txs[t].old, txs[t].id),
                          ![t].pc = "hasSubordinates"]
    /\ ConcFrame

\* const hasSubordinates = await tx.employee.findFirst(...)
TxHasSubordinates(t) ==
    /\ txs[t].pc = "hasSubordinates"
    /\ LET subs == HasSubordinates(employees, txs[t].old) IN
       txs' = [txs EXCEPT ![t].subs = subs,
                          ![t].pc = IF ~txs[t].still /\ ~subs
                                    THEN "demote" ELSE "commit"]
    /\ ConcFrame

\* the previous manager's user is looked up and demoted
TxDemote(t) ==
    /\ txs[t].pc = "demote"
    /\ LET w == RoleWrites(t, DemoteIfManager(UserView(t), txs[t].old)) IN
       /\ ~RoleLocked(t, w)
       /\ txs' = [txs EXCEPT ![t].roles = w, ![t].pc = "commit"]
    /\ ConcFrame

\* the callback returned: the writes become the committed rows; of a
\* transaction that overlapped another one the request and the manager it
\* found are kept
Commit(t) ==
    /\ txs[t].pc = "commit"
    /\ departments' = DeptView(t)
    /\ users' = UserView(t)
    /\ sessions' = sessions \cup SignIns(UserView(t))
    /\ txs' = [txs EXCEPT ![t] = IF txs[t].peers = {} THEN NoTx
                                 ELSE [@ EXCEPT !.pc = "committed",
                                                !.still = FALSE, !.subs = FALSE,
                                                !.deps = EmptyTable,
                                                !.roles = EmptyTable]]
    /\ UNCHANGED <<employees, memberships, ctx, input, response>>

\* the store or the client gives the transaction up: its writes are dropped
Abort(t) ==
    /\ Active(t)
    /\ txs' = [txs EXCEPT ![t] = NoTx]
    /\ ConcFrame

\* the administrator has created every employee, without manager
InitConc ==
    /\ employees = [e \in EmpIds |->
                      [firstName |-> 1, lastName |-> LastNameOf(1),
                       telephoneNumber |-> PhoneOf(1), emailAddress |-> e,
                       status |-> "ACTIVE", managerId |-> NoId]]
    /\ users = [u \in {AdminUserId} \cup EmpIds |->
                  IF u = AdminUserId THEN SeedAdmin
                  ELSE [email |-> u, name |-> FullName(1, LastNameOf(1)),
                        role |-> "EMPLOYEE", employeeId |-> u]]
    /\ departments = EmptyTable
    /\ memberships = {}
    /\ sessions = SignIns(users)
    /\ ctx = NoSession
    /\ input = NoInput
    /\ response = Idle
    /\ txs = [t \in TxIds |-> NoTx]

NextConc ==
    \/ \E t \in TxIds, m \in EmpIds : Begin(t, "department.create", NoId, m)
    \/ \E t \in TxIds, d \in DeptIds, m \in EmpIds : Begin(t, "department.update", d, m)
    \/ \E t \in TxIds : TxCreate(t)
    \/ \E t \in TxIds : TxFindCurrent(t)
    \/ \E t \in TxIds : TxUpdate(t)
    \/ \E t \in TxIds : TxPromote(t)
    \/ \E t \in TxIds : TxStillManaging(t)
    \/ \E t \in TxIds : TxHasSubordinates(t)
    \/ \E t \in TxIds : TxDemote(t)
    \/ \E t \in TxIds : Commit(t)
    \/ \E t \in TxIds : Abort(t)

SpecConc == InitConc /\ [][NextConc]_vars

\* ---- concurrent employee updates ---------------------------------------
\* employee.update issues findUnique, employee.update and user.update as
\* three separate statements on ctx.db, outside any transaction: the
\* statements of two requests under way interleave freely.  A connection
\* holds the caller, the form, the users findUnique returned with the
\* employee, and the outcome once it is known.
NoCall == [pc |-> "idle", session |-> NoSession, input |-> NoInput,
           user |-> {}, outcome |-> "PENDING"]

CallFrame ==
    UNCHANGED <<departments, memberships, sessions, ctx, input, response>>

\* a signed-in caller submits the edit form on a free connection
UpdateBegin(t, token, form) ==
    /\ txs[t].pc = "idle"
    /\ token \in sessions
    /\ txs' = [txs EXCEPT ![t] = [NoCall EXCEPT !.pc = "findUnique",
                                                !.session = token,
                                                !.input = form]]
    /\ UNCHANGED <<employees, users>>
    /\ CallFrame

\* ctx.db.employee.findUnique({ where: { id }, include: { user: true } })
\* followed by the isAuthorized test on the row just read
UpdateFindUnique(t) ==
    LET id == txs[t].input.id IN
    /\ txs[t].pc = "findUnique"
    /\ txs' = [txs EXCEPT ![t] =
                 IF id \notin DOMAIN employees
                 THEN [@ EXCEPT !.pc = "return", !.outcome = "NOT_FOUND"]
                 ELSE IF ~isAuthorized(txs[t].session, id, employees[id])
                 THEN [@ EXCEPT !.pc = "return", !.outcome = "FORBIDDEN"]
                 ELSE [@ EXCEPT !.pc = "update",
                                !.user = UsersOfEmployee(users, id)]]
    /\ UNCHANGED <<employees, users>>
    /\ CallFrame

\* ctx.db.employee.update({ where: { id }, data: updateData }): the columns
\* of updateData are written over the row as it is now
UpdateEmployee(t) ==
    LET f == txs[t].input
        id == f.id
        row == UpdateData(txs[t].session, employees[id], f.firstName, f.lastName,
                          f.telephoneNumber, f.emailAddress, f.managerId, f.status)
        employeeErrors ==
            (IF EmployeeEmailTaken(employees, f.emailAddress, id)
             THEN {"CONFLICT"} ELSE {})
            \cup (IF row.managerId # NoId /\ row.managerId \notin DOMAIN employees
                  THEN {"ERROR"} ELSE {})
    IN
    /\ txs[t].pc = "update"
    /\ IF employeeErrors # {}
       THEN /\ \E e \in employeeErrors :
                  txs' = [txs EXCEPT ![t].pc = "return", ![t].outcome = e]
            /\ UNCHANGED employees
       ELSE /\ employees' = [employees EXCEPT ![id] = row]
            /\ txs' = [txs EXCEPT ![t].pc = "userUpdate"]
    /\ UNCHANGED users
    /\ CallFrame

\* if (employee.user) ctx.db.user.update({ where: { id: employee.user.id } })
UpdateUser(t) ==
    LET f == txs[t].input IN
    /\ txs[t].pc = "userUpdate"
    /\ IF txs[t].user = {}
       THEN /\ txs' = [txs EXCEPT ![t].pc = "return", ![t].outcome = "OK"]
            /\ UNCHANGED users
       ELSE LET u == CHOOSE x \in txs[t].user : TRUE IN
            IF UserEmailTaken(users, f.emailAddress, u)
            THEN /\ txs' = [txs EXCEPT ![t].pc = "return", ![t].outcome = "CONFLICT"]
                 /\ UNCHANGED users
            ELSE /\ users' = [users EXCEPT ![u] =
                                 UserUpdate(users[u], f.emailAddress,
                                            f.firstName, f.lastName)]
                 /\ txs' = [txs EXCEPT ![t].pc = "return", ![t].outcome = "OK"]
    /\ UNCHANGED employees
    /\ CallFrame

\* the answer is sent and the connection is free again
UpdateReturn(t) ==
    /\ txs[t].pc = "return"
    /\ txs' = [txs EXCEPT ![t] = NoCall]
    /\ UNCHANGED <<employees, users>>
    /\ CallFrame

\* Every employee exists with its user; the first employee reports to the
\* second one, who manages the first department and is MANAGER.
InitUpdates ==
    /\ employees = [e \in EmpIds |->
                      [firstName |-> 1, lastName |-> LastNameOf(1),
                       telephoneNumber |-> PhoneOf(1), emailAddress |-> e,
                       status |-> "ACTIVE",
                       managerId |-> IF e = 1 THEN 2 ELSE NoId]]
    /\ users = [u \in {AdminUserId} \cup EmpIds |->
                  IF u = AdminUserId THEN SeedAdmin
                  ELSE [email |-> u, name |-> FullName(1, LastNameOf(1)),
                        role |-> IF u = 2 THEN "MANAGER" ELSE "EMPLOYEE",
                        employeeId |-> u]]
    /\ departments = Put(EmptyTable, 1,
                         [name |-> 1, status |-> "ACTIVE", managerId |-> 2])
    /\ memberships = {}
    /\ sessions = SignIns(users)
    /\ ctx = NoSession
    /\ input = NoInput
    /\ response = Idle
    /\ txs = [t \in TxIds |-> NoCall]

\* the record of the first employee is edited by every caller, under any
\* first name and with any manager asked for, on two connections at once
NextUpdates ==
    \/ \E t \in TxIds, token \in sessions, p \in Names, m \in OptionalEmpIds :
          UpdateBegin(t, token, UpdateInput(1, p, LastNameOf(p), PhoneOf(p),
                                           employees[1].emailAddress, m, NoStatus))
    \/ \E t \in TxIds : UpdateFindUnique(t)
    \/ \E t \in TxIds : UpdateEmployee(t)
    \/ \E t \in TxIds : UpdateUser(t)
    \/ \E t \in TxIds : UpdateReturn(t)

SpecUpdates == InitUpdates /\ [][NextUpdates]_vars

\* ---- properties ---------------------------------------------------------
\* the user linked to employee e (employeeId is @unique)
UserOf(us, e) == CHOOSE u \in UsersOfEmployee(us, e) : TRUE

ManagesDepartment(deps, e) == \E d \in DOMAIN deps : deps[d].managerId = e
ManagesEmployee(emps, e) == \E x \in DOMAIN emps : emps[x].managerId = e

\* the last request was a successful request of procedure op
Done(op) == response.op = op /\ response.outcome = "OK"

\* the user u has held the role r (a token with that role was issued)
HasHeldRole(u, r) ==
    [id |-> u, role |-> r, employeeId |-> users[u].employeeId] \in sessions

\* C1: in every reachable state the manager of every department has a linked
\* user whose role is MANAGER or ADMIN, never EMPLOYEE.
C1_DepartmentManagerHasRole ==
    \A d \in DOMAIN departments :
        /\ UsersOfEmployee(users, departments[d].managerId) # {}
        /\ \A u \in UsersOfEmployee(users, departments[d].managerId) :
              users[u].role \in {"MANAGER", "ADMIN"}

\* a department was re-assigned and both departments have managers who were
\* promoted from EMPLOYEE
C1_Witness ==
    /\ Done("department.update")
    /\ Cardinality(DOMAIN departments) = MaxDept
    /\ \E d \in DOMAIN departments :
          LET u == UserOf(users, departments[d].managerId) IN
          users[u].role = "MANAGER" /\ HasHeldRole(u, "EMPLOYEE")

\* C2: every non-ADMIN user linked to an employee is MANAGER exactly when the
\* employee is the manager of another employee or of a department, and
\* EMPLOYEE otherwise.
C2_RoleReflectsGraph ==
    \A u \in DOMAIN users :
        LET e == users[u].employeeId IN
        (e # NoId /\ users[u].role # "ADMIN") =>
            /\ users[u].role \in {"MANAGER", "EMPLOYEE"}
            /\ users[u].role = "MANAGER" <=>
                  \/ \E x \in DOMAIN employees : x # e /\ employees[x].managerId = e
                  \/ ManagesDepartment(departments, e)

\* the step is a successful request of procedure op
Succeeded(op) == response'.op = op /\ response'.outcome = "OK"

\* C3: a department.update that moves a department from M_old to another
\* manager leaves M_old's user EMPLOYEE if it was MANAGER and M_old, after the
\* update, manages no department and no employee.
C3_IdleManagerDemoted ==
    [][Succeeded("department.update") =>
        \A d \in DOMAIN departments :
            LET old == departments[d].managerId IN
            ( /\ departments'[d].managerId # old
              /\ ~ManagesDepartment(departments', old)
              /\ ~ManagesEmployee(employees', old)
              /\ users[UserOf(users, old)].role = "MANAGER" )
            => users'[UserOf(users, old)].role = "EMPLOYEE"]_vars

\* after a re-assignment somebody who has been MANAGER is EMPLOYEE again and
\* manages nothing
C3_Witness ==
    /\ Done("department.update")
    /\ \E u \in DOMAIN users :
          /\ users[u].role = "EMPLOYEE"
          /\ HasHeldRole(u, "MANAGER")
          /\ ~ManagesDepartment(departments, users[u].employeeId)
          /\ ~ManagesEmployee(employees, users[u].employeeId)

\* C4: a successful department.create with manager M, or department.update
\* that changes the manager to M, makes M's user MANAGER if it was EMPLOYEE
\* and leaves its role alone if it was MANAGER or ADMIN.
C4_NewManagerPromoted ==
    [][/\ Succeeded("department.create") =>
            \A d \in DOMAIN departments' \ DOMAIN departments :
                LET u == UserOf(users, departments'[d].managerId) IN
                users'[u].role = IF users[u].role = "EMPLOYEE"
                                 THEN "MANAGER" ELSE users[u].role
       /\ Succeeded("department.update") =>
            \A d \in DOMAIN departments :
                departments'[d].managerId # departments[d].managerId
                => LET u == UserOf(users, departments'[d].managerId) IN
                   users'[u].role = IF users[u].role = "EMPLOYEE"
                                    THEN "MANAGER" ELSE users[u].role]_vars

\* a department was created and its manager, once EMPLOYEE, is MANAGER
C4_Witness ==
    /\ Done("department.create")
    /\ \E d \in DOMAIN departments :
          LET u == UserOf(users, departments[d].managerId) IN
          users[u].role = "MANAGER" /\ HasHeldRole(u, "EMPLOYEE")

\* C5: a department.update that moves a department away from M_old does not
\* change the role of M_old's user when, after the update, M_old still manages
\* another department or still is the manager of some employee.
C5_BusyManagerKeepsRole ==
    [][Succeeded("department.update") =>
        \A d \in DOMAIN departments :
            LET old == departments[d].managerId IN
            ( /\ departments'[d].managerId # old
              /\ \/ ManagesDepartment(departments', old)
                 \/ ManagesEmployee(employees', old) )
            => users'[UserOf(users, old)].role = users[UserOf(users, old)].role]_vars

\* after a re-assignment somebody is still MANAGER with no department left,
\* on account of a direct report
C5_Witness ==
    /\ Done("department.update")
    /\ \E u \in DOMAIN users :
          /\ users[u].role = "MANAGER"
          /\ ~ManagesDepartment(departments, users[u].employeeId)
          /\ ManagesEmployee(employees, users[u].employeeId)

\* C6: the set of ADMIN users never changes: it is the seeded administrator
\* in every reachable state.
C6_AdminSetFixed ==
    {u \in DOMAIN users : users[u].role = "ADMIN"} = {AdminUserId}

\* the administrator's own employee record was made manager of a department
C6_Witness ==
    /\ Done("department.create")
    /\ users[AdminUserId].employeeId # NoId
    /\ ManagesDepartment(departments, users[AdminUserId].employeeId)
    /\ users[AdminUserId].role = "ADMIN"

\* the caller may edit the employee id: ADMIN, the employee, or a MANAGER who
\* is the employee's current manager
Permitted(session, id) ==
    \/ session.role = "ADMIN"
    \/ session.employeeId = id
    \/ (session.role = "MANAGER" /\ session.employeeId = employees[id].managerId)

\* the step answers the recorded employee.update form, for an existing employee
UpdateAnswered ==
    /\ response'.op = "employee.update"
    /\ input # NoInput
    /\ input.id \in DOMAIN employees

\* the row of the employee after the step carries the submitted basic fields
BasicFieldsApplied ==
    /\ employees'[input.id].firstName = input.firstName
    /\ employees'[input.id].lastName = input.lastName
    /\ employees'[input.id].telephoneNumber = input.telephoneNumber
    /\ employees'[input.id].emailAddress = input.emailAddress

\* C9 (as stated): employee.update on an existing employee is applied exactly
\* when the caller is ADMIN, the employee, or the employee's MANAGER; in every
\* other case it fails with Forbidden and changes neither Employee nor User.
C9_AppliedIffPermitted ==
    [][UpdateAnswered =>
        IF Permitted(ctx, input.id)
        THEN response'.outcome = "OK" /\ BasicFieldsApplied
        ELSE /\ response'.outcome = "FORBIDDEN"
             /\ employees' = employees
             /\ users' = users]_vars

\* C9 (amended): employee.update on an existing employee fails with Forbidden
\* exactly when the caller is neither ADMIN, nor the employee, nor a MANAGER
\* who is the employee's manager, and then changes neither Employee nor User;
\* a permitted update is applied (answered OK, the row carrying the submitted
\* fields) unless it fails with Conflict or a storage error.
C9_ForbiddenIffNotPermitted ==
    [][UpdateAnswered =>
        /\ response'.outcome = "FORBIDDEN" <=> ~Permitted(ctx, input.id)
        /\ response'.outcome = "FORBIDDEN" => (employees' = employees /\ users' = users)
        /\ Permitted(ctx, input.id) => response'.outcome \in {"OK", "CONFLICT", "ERROR"}
        /\ response'.outcome = "OK" => BasicFieldsApplied]_vars

\* a MANAGER who is not the employee's manager was refused
C9_Witness ==
    /\ response.op = "employee.update"
    /\ response.outcome = "FORBIDDEN"
    /\ input # NoInput
    /\ input.id \in DOMAIN employees
    /\ ctx.role = "MANAGER"
    /\ ctx.employeeId # input.id
    /\ employees[input.id].managerId # ctx.employeeId

\* the caller is permitted without being ADMIN
NonAdminPermitted(session, id) ==
    /\ session.role # "ADMIN"
    /\ \/ session.employeeId = id
       \/ (session.role = "MANAGER" /\ session.employeeId = employees[id].managerId)

\* the form asks for another manager or another status than the stored ones
AsksManagerOrStatus ==
    \/ (input.managerId # Undefined /\ input.managerId # employees[input.id].managerId)
    \/ (input.status # NoStatus /\ input.status # employees[input.id].status)

\* C10 (as stated): an employee.update by a permitted non-ADMIN caller with a
\* managerId or status different from the stored one succeeds, leaves
\* managerId and status as stored and applies the four basic fields.
C10_NonAdminUpdateSucceeds ==
    [][(UpdateAnswered /\ NonAdminPermitted(ctx, input.id) /\ AsksManagerOrStatus) =>
        /\ response'.outcome = "OK"
        /\ employees'[input.id].managerId = employees[input.id].managerId
        /\ employees'[input.id].status = employees[input.id].status
        /\ BasicFieldsApplied]_vars

\* C10 (amended): an employee.update by a permitted non-ADMIN caller with a
\* managerId or status different from the stored one leaves the stored
\* managerId and status unchanged; it succeeds unless the submitted e-mail
\* address is the address of another Employee or of another User (Conflict);
\* when it succeeds the four basic fields take the submitted values.
C10_NonAdminKeepsManagerAndStatus ==
    [][(UpdateAnswered /\ NonAdminPermitted(ctx, input.id) /\ AsksManagerOrStatus) =>
        /\ employees'[input.id].managerId = employees[input.id].managerId
        /\ employees'[input.id].status = employees[input.id].status
        /\ IF \/ \E x \in DOMAIN employees :
                    x # input.id /\ employees[x].emailAddress = input.emailAddress
              \/ \E u \in DOMAIN users :
                    users[u].employeeId # input.id /\ users[u].email = input.emailAddress
           THEN response'.outcome = "CONFLICT"
           ELSE response'.outcome = "OK" /\ BasicFieldsApplied]_vars

\* the employee's manager submitted another manager, another status and other
\* names: the names were stored, manager and status were not
C10_Witness ==
    /\ Done("employee.update")
    /\ input # NoInput
    /\ input.id \in DOMAIN employees
    /\ ctx.role = "MANAGER"
    /\ ctx.employeeId # input.id
    /\ employees[input.id].managerId = ctx.employeeId
    /\ input.managerId \notin {Undefined, ctx.employeeId}
    /\ input.status = "INACTIVE"
    /\ employees[input.id].status = "ACTIVE"
    /\ input.firstName = MaxName
    /\ employees[input.id].firstName = MaxName

\* no transaction is under way
Quiescent == \A t \in TxIds : ~Active(t)

\* C7: with department.create and department.update running concurrently as
\* read-committed transactions, once none is under way no Department has a
\* manager whose User has role EMPLOYEE.
C7_ManagersKeepRoleWhenConcurrent ==
    Quiescent =>
        \A d \in DOMAIN departments :
            \A u \in UsersOfEmployee(users, departments[d].managerId) :
                users[u].role # "EMPLOYEE"

\* two committed department.update transactions that ran at the same time,
\* each taking another department away from employee m
ReassignedBoth(a, b, m) ==
    /\ a # b
    /\ txs[a].pc = "committed" /\ txs[b].pc = "committed"
    /\ txs[a].op = "department.update" /\ txs[b].op = "department.update"
    /\ txs[a].peers = {b} /\ txs[b].peers = {a}
    /\ txs[a].id # txs[b].id
    /\ txs[a].old = m /\ txs[b].old = m
    /\ txs[a].managerId # m /\ txs[b].managerId # m

\* C8: when two concurrent department.update transactions have each
\* reassigned one of the only two departments of employee m, who has no
\* direct reports, and both have committed, m's User has role EMPLOYEE.
C8_BothReassignedDemotes ==
    \A a \in TxIds, b \in TxIds, m \in EmpIds :
        (/\ ReassignedBoth(a, b, m)
         /\ Quiescent
         /\ ~ManagesDepartment(departments, m)
         /\ ~ManagesEmployee(employees, m))
        => \A u \in UsersOfEmployee(users, m) : users[u].role = "EMPLOYEE"

\* the procedures reserved to the administrator
AdminOnly ==
    {"department.create", "department.update", "department.toggleStatus",
     "employee.toggleStatus"}

\* C11: department.create, department.update, department.toggleStatus and
\* employee.toggleStatus called by a caller whose role is not ADMIN fail with
\* Forbidden and change no Department, Employee or User.
C11_AdminOnlyForbidden ==
    [][(response = Pending /\ response'.op \in AdminOnly /\ ctx.role # "ADMIN") =>
        /\ response'.outcome = "FORBIDDEN"
        /\ departments' = departments
        /\ employees' = employees
        /\ users' = users]_vars

\* a MANAGER was refused the status change of an existing department
C11_Witness ==
    /\ response.op = "department.toggleStatus"
    /\ response.outcome = "FORBIDDEN"
    /\ response.id \in DOMAIN departments
    /\ ctx.role = "MANAGER"

\* the last request was the query op
Asked(op) == response.op = op

\* C12: every Employee that employee.getAll returns to a MANAGER caller, for
\* every combination of filters, is the caller's own record or a direct
\* report of the caller.
C12_ManagerSeesOwnTeamOnly ==
    (Asked("employee.getAll") /\ ctx.role = "MANAGER") =>
        \A e \in response.rows :
            e = ctx.employeeId \/ employees[e].managerId = ctx.employeeId

\* C13: for a MANAGER caller, what employee.getAll returns with a managerId
\* filter is a subset of what the same call returns without that filter.
C13_ManagerFilterNarrows ==
    (Asked("employee.getAll") /\ ctx.role = "MANAGER" /\ Truthy(input.managerId)) =>
        response.rows \subseteq
            EmployeeGetAllRows(ctx, input.status, Undefined, input.departmentId)

\* C14: employee.getAll returns to an EMPLOYEE caller no Employee other than
\* the caller's own record, for every combination of filters.
C14_EmployeeSeesOwnRecordOnly ==
    (Asked("employee.getAll") /\ ctx.role = "EMPLOYEE") =>
        response.rows \subseteq {ctx.employeeId}

\* an EMPLOYEE asked for the reports of another employee, who has some, and
\* got the own record
C14_Witness ==
    /\ Asked("employee.getAll")
    /\ ctx.role = "EMPLOYEE"
    /\ input.status = "ALL"
    /\ input.departmentId = Undefined
    /\ Truthy(input.managerId)
    /\ \E e \in DOMAIN employees :
          e # ctx.employeeId /\ employees[e].managerId = input.managerId
    /\ response.rows = {ctx.employeeId}

\* the caller may read the employee id: ADMIN, the employee, or a MANAGER who
\* is the employee's manager
MayRead(session, id) ==
    \/ session.role = "ADMIN"
    \/ session.employeeId = id
    \/ (session.role = "MANAGER" /\ session.employeeId = employees[id].managerId)

\* C15: employee.getById(id) yields NotFound exactly when no Employee has the
\* id; for an existing Employee it returns the record exactly when the caller
\* is ADMIN, the employee, or a MANAGER whose employeeId is the record's
\* managerId, and yields Forbidden otherwise.
C15_GetByIdOutcome ==
    Asked("employee.getById") =>
        IF input.id \notin DOMAIN employees
        THEN response.outcome = "NOT_FOUND"
        ELSE IF MayRead(ctx, input.id)
        THEN response.outcome = "OK" /\ response.rows = {input.id}
        ELSE response.outcome = "FORBIDDEN" /\ response.rows = {}

\* an EMPLOYEE asked for a colleague who is not the own report and was refused
C15_Witness ==
    /\ Asked("employee.getById")
    /\ response.outcome = "FORBIDDEN"
    /\ ctx.role = "EMPLOYEE"
    /\ input.id \in DOMAIN employees
    /\ input.id # ctx.employeeId
    /\ employees[input.id].managerId # ctx.employeeId

\* department d is in the department.getAll scope of a MANAGER or EMPLOYEE
InDepartmentScope(session, d) ==
    \/ <<session.employeeId, d>> \in memberships
    \/ (session.role = "MANAGER" /\ departments[d].managerId = session.employeeId)

\* C16: department.getById returns an existing department to a MANAGER or
\* EMPLOYEE caller only if the department is in the caller's department.getAll
\* scope; outside that scope it yields Forbidden.
C16_DepartmentByIdScoped ==
    (/\ Asked("department.getById")
     /\ ctx.role \in {"MANAGER", "EMPLOYEE"}
     /\ input.id \in DOMAIN departments
     /\ ~InDepartmentScope(ctx, input.id))
    => response.outcome = "FORBIDDEN"

ReadOps ==
    {"employee.getAll", "employee.getById", "employee.getManagers",
     "employee.getAllForDepartmentManager", "department.getAll",
     "department.getById"}

\* C17: no read operation returns to an EMPLOYEE caller data of an Employee
\* other than the caller's own record.
C17_EmployeeReadsOwnDataOnly ==
    (response.op \in ReadOps /\ response.outcome = "OK" /\ ctx.role = "EMPLOYEE") =>
        response.shown \subseteq {ctx.employeeId}

\* C18: department.getAll returns exactly the departments matching the status
\* filter: to an EMPLOYEE those the caller is a member of, to a MANAGER those
\* the caller manages or is a member of, to an ADMIN all of them.
C18_DepartmentGetAllExact ==
    Asked("department.getAll") =>
        response.rows =
            {d \in DOMAIN departments :
                /\ input.status = "ALL" \/ departments[d].status = input.status
                /\ ctx.role = "ADMIN" \/ InDepartmentScope(ctx, d)}

\* a MANAGER filtering on a status got a department of which the caller is a
\* member and not the manager, and not the managed department of the other
\* status
C18_Witness ==
    /\ Asked("department.getAll")
    /\ ctx.role = "MANAGER"
    /\ input.status # "ALL"
    /\ \E d \in response.rows :
          /\ departments[d].managerId # ctx.employeeId
          /\ <<ctx.employeeId, d>> \in memberships
    /\ \E d \in DOMAIN departments \ response.rows :
          departments[d].managerId = ctx.employeeId

\* every Employee has exactly one User
PairedWithUser(emps, us) ==
    \A e \in DOMAIN emps : Cardinality(UsersOfEmployee(us, e)) = 1

\* C19: in every reachable state every Employee has exactly one User whose
\* employeeId is the Employee's id; employee.create persists the Employee
\* together with its User of role EMPLOYEE, or fails and persists neither.
C19_EmployeeCreatedWithUser ==
    [][/\ PairedWithUser(employees, users)
       /\ PairedWithUser(employees', users')
       /\ (response = Pending /\ response'.op = "employee.create") =>
             IF response'.outcome = "OK"
             THEN /\ DOMAIN employees' = DOMAIN employees \cup {response'.id}
                  /\ response'.id \notin DOMAIN employees
                  /\ \E u \in DOMAIN users' \ DOMAIN users :
                        /\ DOMAIN users' = DOMAIN users \cup {u}
                        /\ users'[u].employeeId = response'.id
                        /\ users'[u].role = "EMPLOYEE"
             ELSE employees' = employees /\ users' = users]_vars

\* a create was refused with Conflict although the address is on no Employee:
\* it is the address of a User
C19_Witness ==
    /\ response.op = "employee.create"
    /\ response.outcome = "CONFLICT"
    /\ employees # EmptyTable
    /\ \A e \in DOMAIN employees : employees[e].emailAddress # FreshEmail
    /\ \E u \in DOMAIN users : users[u].email = FreshEmail

\* C20: in every reachable state the e-mail of the User linked to an Employee
\* equals the Employee's emailAddress.
C20_UserEmailMirrorsEmployee ==
    \A e \in DOMAIN employees :
        \A u \in UsersOfEmployee(users, e) : users[u].email = employees[e].emailAddress

\* C21: employee.update is all-or-nothing: whenever it answers with an error
\* (NOT_FOUND, FORBIDDEN, CONFLICT or a storage failure) the Employee rows and
\* the User rows are exactly as they were before the call.
C21_UpdateAllOrNothing ==
    [][(/\ response = Pending
        /\ response'.op = "employee.update"
        /\ response'.outcome # "OK") =>
            (employees' = employees /\ users' = users)]_vars

\* department names are pairwise distinct
NamesDistinct(deps) ==
    \A a, b \in DOMAIN deps : deps[a].name = deps[b].name => a = b

\* the pending request asks for a name that a department other than the
\* addressed one carries (for an update, the addressed department exists)
AsksTakenName ==
    /\ response = Pending
    /\ input # NoInput
    /\ input.op \in {"department.create", "department.update"}
    /\ input.op = "department.update" => input.id \in DOMAIN departments
    /\ DeptNameTaken(departments, input.name, input.id)

\* C22 (as stated): department.create with a name equal to an existing
\* department's name, and department.update setting a name equal to another
\* department's name, fail with Conflict and leave all Departments and all
\* User roles unchanged, so department names are pairwise distinct in every
\* reachable state.
C22_TakenNameConflicts ==
    [][/\ NamesDistinct(departments')
       /\ AsksTakenName =>
             /\ response'.outcome = "CONFLICT"
             /\ departments' = departments
             /\ users' = users]_vars

\* C22 (amended): the same for an ADMIN caller naming an existing Employee as
\* manager; any other caller is answered Forbidden, and in every case the
\* call fails, all Departments and all User roles stay unchanged and the
\* names stay pairwise distinct.
C22_AdminTakenNameConflicts ==
    [][/\ NamesDistinct(departments) /\ NamesDistinct(departments')
       /\ AsksTakenName =>
             /\ response'.outcome # "OK"
             /\ (ctx.role = "ADMIN" /\ input.managerId \in DOMAIN employees)
                   => response'.outcome = "CONFLICT"
             /\ ctx.role # "ADMIN" => response'.outcome = "FORBIDDEN"
             /\ departments' = departments
             /\ users' = users]_vars

\* an ADMIN's renaming of a department to the name of another one, with an
\* existing manager, was refused
C22_Witness ==
    /\ response.op = "department.update"
    /\ response.outcome = "CONFLICT"
    /\ ctx.role = "ADMIN"
    /\ input.managerId \in DOMAIN employees
    /\ \E d \in DOMAIN departments : d # input.id /\ departments[d].name = input.name

\* every department is managed by an existing employee
ManagersExist(deps, emps) ==
    \A d \in DOMAIN deps : deps[d].managerId # NoId /\ deps[d].managerId \in DOMAIN emps

\* C23: in every reachable state every Department's managerId is non-null and
\* equals the id of an existing Employee; department.create and
\* department.update given a managerId that matches no Employee fail and
\* persist no Department change and no role change.
C23_DepartmentManagerExists ==
    [][/\ ManagersExist(departments, employees)
       /\ ManagersExist(departments', employees')
       /\ (/\ response = Pending
           /\ input # NoInput
           /\ input.op \in {"department.create", "department.update"}
           /\ input.managerId \notin DOMAIN employees) =>
             /\ response'.outcome # "OK"
             /\ departments' = departments
             /\ users' = users]_vars

\* an ADMIN's re-assignment of an existing department to an unknown employee
\* was refused by the store
C23_Witness ==
    /\ response.op = "department.update"
    /\ response.outcome = "ERROR"
    /\ ctx.role = "ADMIN"
    /\ input.id \in DOMAIN departments
    /\ input.managerId \notin DOMAIN employees

\* C24: in every reachable state no Employee has managerId equal to its own
\* id (neither employee.create nor an ADMIN's employee.update can make an
\* Employee its own manager).
C24_NoSelfManagement ==
    \A e \in DOMAIN employees : employees[e].managerId # e

\* the users whose role differs between the two states of a step
RoleChanged ==
    {u \in DOMAIN users : users'[u].role # users[u].role}

\* C25: the role of an existing User changes only during a department.create
\* or department.update invoked by an ADMIN: employee.create, employee.update
\* (including an ADMIN re-assigning an employee's managerId),
\* employee.toggleStatus and department.toggleStatus leave the role of every
\* existing User unchanged.
C25_RoleChangesOnlyByDepartmentWrite ==
    [][/\ DOMAIN users \subseteq DOMAIN users'
       /\ RoleChanged # {} =>
             /\ response = Pending
             /\ response'.op \in {"department.create", "department.update"}
             /\ response'.outcome = "OK"
             /\ ctx.role = "ADMIN"]_vars

\* an ADMIN put the first employee under a colleague, who is still a plain
\* EMPLOYEE afterwards
C25_Witness ==
    /\ response.op = "employee.update"
    /\ response.outcome = "OK"
    /\ ctx.role = "ADMIN"
    /\ 1 \in DOMAIN employees
    /\ employees[1].managerId \in DOMAIN employees \ {1}
    /\ \A u \in UsersOfEmployee(users, employees[1].managerId) :
          users[u].role = "EMPLOYEE"

\* the table an operation's id is looked up in
TableOf(op) ==
    IF op \in {"employee.getById", "employee.update", "employee.toggleStatus"}
    THEN DOMAIN employees ELSE DOMAIN departments

\* the operations that take a record id
ById ==
    {"employee.getById", "employee.update", "employee.toggleStatus",
     "department.getById", "department.update", "department.toggleStatus"}

\* C26: for every operation that takes a record id the outcome is NotFound
\* whenever the id resolves to no record, and Forbidden only when the id
\* resolves to an existing record for which the caller fails the
\* authorization predicate.
C26_NotFoundThenForbidden ==
    [][(response = Pending /\ response'.op \in ById) =>
          /\ response'.id \notin TableOf(response'.op)
                => response'.outcome = "NOT_FOUND"
          /\ response'.outcome = "FORBIDDEN"
                => response'.id \in TableOf(response'.op)]_vars

\* a status switch of record id succeeded in this step
ToggleDone(op) ==
    /\ response = Pending
    /\ response'.op = op
    /\ response'.outcome = "OK"

\* C27: for every Employee and Department record, status is ACTIVE or
\* INACTIVE in every reachable state, and two successive status toggles of
\* the same record by ADMIN callers return its status to the value it had
\* before the first toggle (the first toggle is the step taken, the second
\* one is applied to its result with either status as input).
C27_DoubleToggleRestores ==
    [][/\ \A e \in DOMAIN employees' : employees'[e].status \in Statuses
       /\ \A d \in DOMAIN departments' : departments'[d].status \in Statuses
       /\ ToggleDone("employee.toggleStatus") =>
             \A s \in Statuses :
                Toggled(employees'[response'.id], s).status
                   = employees[response'.id].status
       /\ ToggleDone("department.toggleStatus") =>
             \A s \in Statuses :
                Toggled(departments'[response'.id], s).status
                   = departments[response'.id].status]_vars

\* C28: employee.getManagers returns, to a caller of any role, exactly the
\* set of Employees that are the managerId of at least one other Employee, or
\* whose linked User has role MANAGER or ADMIN, or that are the managerId of
\* at least one Department, regardless of the status of the employee,
\* subordinate or department.
C28_GetManagersExact ==
    [][(response = Pending /\ response'.op = "employee.getManagers") =>
          /\ response'.outcome = "OK"
          /\ response'.rows =
                {e \in DOMAIN employees :
                    \/ \E x \in DOMAIN employees \ {e} : employees[x].managerId = e
                    \/ \E u \in UsersOfEmployee(users, e) :
                          users[u].role \in {"MANAGER", "ADMIN"}
                    \/ \E d \in DOMAIN departments : departments[d].managerId = e}]_vars

\* C29: the role under which a request is authorized equals the caller's
\* User.role as stored at the time of the request: once a department.create
\* or department.update has promoted or demoted a user, every later request
\* by that user (within the same login session) is authorized and scoped
\* under the new role.
C29_AuthorizedUnderStoredRole ==
    response = Pending => ctx.role = users[ctx.id].role

\* C30: employee.update by a MANAGER caller modifies an Employee other than
\* the caller only if that Employee's managerId equals caller.employeeId at
\* the moment the write is applied, also when an ADMIN's employee.update
\* re-assigning that Employee's manager commits between the caller's
\* authorization read and the caller's write.
C30_ManagerWritesOwnTeamOnly ==
    [][\A t \in TxIds :
          (/\ txs[t].pc = "update"
           /\ txs'[t].pc = "userUpdate"
           /\ txs[t].session.role = "MANAGER"
           /\ txs[t].session.employeeId # txs[t].input.id
           /\ employees'[txs[t].input.id] # employees[txs[t].input.id]) =>
              employees[txs[t].input.id].managerId = txs[t].session.employeeId]_vars

====
